---- MODULE Spec2Model ----
(***************************************************************************)
(* Model of the Chai Insights ledger application.                          *)
(*                                                                         *)
(*   App (src/unnamed/part_000)            transactions, staff,            *)
(*                                         editingTransaction, activeTab   *)
(*   StaffManager (src/components/StaffManager.tsx, lines 12-265)          *)
(*                                         registration and payroll        *)
(*   TransactionForm (src/components/StaffManager.tsx, lines 278-425)      *)
(*                                         manual entry and edit           *)
(*                                                                         *)
(* Strings typed into the forms are sequences of characters, converted by  *)
(* Number as ECMAScript converts a string to a number.  A character of     *)
(* printable ASCII, and each of tab, line feed, form feed and carriage     *)
(* return, is the string of that character; any other character is the     *)
(* string that names its code point, as "U+00A0" for the no-break space.   *)
(* Money is a JavaScript number, an IEEE-754 double: Times and Plus are    *)
(* the * and + of JavaScript, rounding to the nearest double, ties to      *)
(* even, and the arithmetic of the properties is this arithmetic, taken in *)
(* the order of the list.  null, which JSON gives for NaN and Infinity,    *)
(* counts as 0 in arithmetic, as + and <= of JavaScript take it.           *)
(* Instants are counted in ticks from a midnight UTC, TicksPerDay to the   *)
(* day.  Date.now() and new Date() read the clock; now is the instant of   *)
(* the last reading, and Tick lets time pass between two handlers: the     *)
(* wall clock is only non-decreasing, so two handlers may read the same    *)
(* millisecond.  A handler that stamps a record reads the clock twice, for *)
(* the id and then for the date, and the clock may advance between the two *)
(* readings.  An action is a handler together with the render that React   *)
(* runs after it (for the payroll handlers, once the alert is dismissed)   *)
(* and the effects of that render.  The session is opened in the last tick *)
(* of a day (SessionStart).                                                *)
(* The onboarding screens and the user profile hold no ledger state and    *)
(* are left out; accrued and lastOp are history variables (what payroll    *)
(* has accrued per staff card, which handler ran last).                    *)
(* totals, profit and paymentData are memoised on transactions alone and   *)
(* are operators of the ledger; dailyChartData also reads the clock when   *)
(* it is computed, in the render that follows a call of setTransactions:   *)
(* once for each of its seven points, and the clock may advance between    *)
(* these readings.  dailyChartAt holds the seven readings of the last      *)
(* computation, the one for today first, and the memoised value            *)
(* dailyChartData is the chart of the ledger as of these readings.         *)
(* setDate steps back in the local time of the device and toISOString      *)
(* gives the UTC date: the chart depends on the zone of the device, which  *)
(* is a parameter of dailyChartData (DeviceZones).                         *)
(* storage is localStorage under the keys chai_transactions and            *)
(* chai_staff.  The save effects run after every render in which their     *)
(* collection was set, so they are part of the handler that set it         *)
(* (saveEffects).  Mounting takes two renders: the first computes the      *)
(* chart of the empty ledger and runs the load effect and the save effects *)
(* on the initial state (mount), the second renders the loaded collections *)
(* (rerender).  The specifications of the handlers start from a first run  *)
(* on empty storage, mounted.  An error thrown by an effect is caught by   *)
(* nothing, and React unmounts the application: boot is then "unmounted"   *)
(* and no handler can be called any more. Spec is the whole application.   *)
(* SpecLedger, SpecPayroll, SpecOneCard, SpecTimeline and SpecSession are  *)
(* parts of it that are explored in full; in SpecLedger and SpecOneCard,   *)
(* for the payroll of SpecPayroll and for the handlers of SpecSession, all *)
(* readings of a handler and its render give one instant (OneReading); the *)
(* readings of the two renders of start-up in SpecSession, and all         *)
(* readings in SpecTimeline, are free.                                     *)
(* getBusinessInsights is the code of part_001; the client it constructs   *)
(* and generateContent belong to the SDK, whose outcomes are chosen        *)
(* nondeterministically: constructing the client succeeds or throws, the   *)
(* request resolves or rejects.                                            *)
(***************************************************************************)
EXTENDS Integers, Sequences, FiniteSets, TLC

VARIABLES transactions, staff, editingTransaction, activeTab, now, dailyChartAt,
          accrued, lastOp,
          insights, loadingInsights, pending, storage, boot, queued

vars == <<transactions, staff, editingTransaction, activeTab, now, dailyChartAt,
          accrued, lastOp,
          insights, loadingInsights, pending, storage, boot, queued>>

\* the advice card: its text, its loading flag and the generateContent call
\* in flight
advice == <<insights, loadingInsights, pending>>

\* start-up: how far mounting has come and the state updates the load effect
\* has queued
startup == <<boot, queued>>

(* ------------------------------ bounds --------------------------------- *)

MaxTx == 2
MaxStaff == 2
MaxClock == 1
MaxHeld == 12
TicksPerDay == 48

\* the first instant of the session: the last tick of day 0
SessionStart == TicksPerDay - 1

\* the trend covers 7 days
TrendDays == 7

\* fetchInsights returns at once below this many transactions
MinForInsights == 3

(* ------------------------------ types ---------------------------------- *)

INCOME == "INCOME"
EXPENSE == "EXPENSE"

NoStaff == -1

Tabs == {"dashboard", "logs", "reports", "staff", "settings"}

(* ------------------- JavaScript numbers (IEEE-754) --------------------- *)

\* A natural number of any size is a sequence of limbs, least significant
\* first, without a leading zero limb; <<>> is zero.
LimbBits == 15

Base == 2 ^ LimbBits

Max(a, b) == IF a >= b THEN a ELSE b

Min(a, b) == IF a <= b THEN a ELSE b

\* the limb of a at place i
Limb(a, i) == IF i <= Len(a) THEN a[i] ELSE 0

BigNorm(a) ==
  IF \A i \in 1..Len(a) : a[i] = 0 THEN <<>>
  ELSE SubSeq(a, 1, CHOOSE n \in 1..Len(a) :
                      a[n] # 0 /\ \A j \in (n + 1)..Len(a) : a[j] = 0)

RECURSIVE BigOfInt(_)
BigOfInt(n) == IF n = 0 THEN <<>> ELSE <<n % Base>> \o BigOfInt(n \div Base)

\* The limbs lo..hi of a + b with carry c coming in, and the carry going
\* out.  The range is halved, so that the evaluation nests no deeper than
\* the logarithm of its length; likewise below.
RECURSIVE BigAddRange(_, _, _, _, _)
BigAddRange(a, b, lo, hi, c) ==
  IF lo > hi THEN [d |-> <<>>, c |-> c]
  ELSE IF lo = hi
       THEN LET s == Limb(a, lo) + Limb(b, lo) + c
            IN  [d |-> <<s % Base>>, c |-> s \div Base]
  ELSE LET mid == (lo + hi) \div 2
           low == BigAddRange(a, b, lo, mid, c)
           high == BigAddRange(a, b, mid + 1, hi, low.c)
       IN  [d |-> low.d \o high.d, c |-> high.c]

\* the limbs s.d with the carry s.c that went out of them
WithCarry(s) == IF s.c = 0 THEN s.d ELSE s.d \o <<s.c>>

BigAdd(a, b) == WithCarry(BigAddRange(a, b, 1, Max(Len(a), Len(b)), 0))

\* a - b for a >= b
RECURSIVE BigSubRange(_, _, _, _, _)
BigSubRange(a, b, lo, hi, c) ==
  IF lo > hi THEN [d |-> <<>>, c |-> c]
  ELSE IF lo = hi
       THEN LET s == Limb(a, lo) - Limb(b, lo) - c
            IN  [d |-> <<s % Base>>, c |-> IF s < 0 THEN 1 ELSE 0]
  ELSE LET mid == (lo + hi) \div 2
           low == BigSubRange(a, b, lo, mid, c)
           high == BigSubRange(a, b, mid + 1, hi, low.c)
       IN  [d |-> low.d \o high.d, c |-> high.c]

BigSub(a, b) ==
  IF b = <<>> THEN a ELSE BigNorm(BigSubRange(a, b, 1, Len(a), 0).d)

\* -1, 0, 1 as a < b, a = b, a > b
BigCmp(a, b) ==
  IF Len(a) # Len(b) THEN (IF Len(a) < Len(b) THEN -1 ELSE 1)
  ELSE IF a = b THEN 0
  ELSE LET i == CHOOSE i \in 1..Len(a) :
                  a[i] # b[i] /\ \A j \in (i + 1)..Len(a) : a[j] = b[j]
       IN  IF a[i] < b[i] THEN -1 ELSE 1

\* a * k + c for 0 <= k, c < Base
RECURSIVE BigMulRange(_, _, _, _, _)
BigMulRange(a, k, lo, hi, c) ==
  IF lo > hi THEN [d |-> <<>>, c |-> c]
  ELSE IF lo = hi
       THEN LET p == a[lo] * k + c
            IN  [d |-> <<p % Base>>, c |-> p \div Base]
  ELSE LET mid == (lo + hi) \div 2
           low == BigMulRange(a, k, lo, mid, c)
           high == BigMulRange(a, k, mid + 1, hi, low.c)
       IN  [d |-> low.d \o high.d, c |-> high.c]

BigMulSmall(a, k, c) == BigNorm(WithCarry(BigMulRange(a, k, 1, Len(a), c)))

BigShiftLimbs(a, n) == IF a = <<>> THEN a ELSE [i \in 1..n |-> 0] \o a

RECURSIVE BigMul(_, _)
BigMul(a, b) ==
  IF a = <<>> \/ b = <<>> THEN <<>>
  ELSE IF Len(b) = 1 THEN BigMulSmall(a, b[1], 0)
  ELSE IF Len(a) = 1 THEN BigMulSmall(b, a[1], 0)
  ELSE LET h == Len(b) \div 2
       IN  BigAdd(BigMul(a, BigNorm(SubSeq(b, 1, h))),
                  BigShiftLimbs(BigMul(a, SubSeq(b, h + 1, Len(b))), h))

\* quotient and remainder of a by k, 0 < k <= Base: the limbs hi..lo of the
\* quotient, most significant first, with remainder r carried in from above
RECURSIVE BigDivRange(_, _, _, _, _)
BigDivRange(a, k, lo, hi, r) ==
  IF lo > hi THEN [d |-> <<>>, r |-> r]
  ELSE IF lo = hi
       THEN LET cur == r * Base + a[lo]
            IN  [d |-> <<cur \div k>>, r |-> cur % k]
  ELSE LET mid == (lo + hi) \div 2
           high == BigDivRange(a, k, mid + 1, hi, r)
           low == BigDivRange(a, k, lo, mid, high.r)
       IN  [d |-> high.d \o low.d, r |-> low.r]

BigDivSmall(a, k) ==
  LET d == BigDivRange(a, k, 1, Len(a), 0)
  IN  [q |-> BigNorm([i \in 1..Len(a) |-> d.d[Len(a) + 1 - i]]), r |-> d.r]

RECURSIVE IntBitLen(_)
IntBitLen(n) == IF n = 0 THEN 0 ELSE 1 + IntBitLen(n \div 2)

BigBitLen(a) ==
  IF a = <<>> THEN 0 ELSE LimbBits * (Len(a) - 1) + IntBitLen(a[Len(a)])

BigIsOdd(a) == a # <<>> /\ a[1] % 2 = 1

\* a * 2^n
BigShl(a, n) ==
  IF n = 0 THEN a
  ELSE BigShiftLimbs(BigMulSmall(a, 2 ^ (n % LimbBits), 0), n \div LimbBits)

\* floor(a / 2^n), and whether any of the n bits shifted out was set
ShiftedOut(d, low) == [q |-> d.q, lost |-> d.r # 0 \/ low]

BigShr(a, n) ==
  LET cut == Min(n \div LimbBits, Len(a))
  IN  IF n = 0 THEN [q |-> a, lost |-> FALSE]
      ELSE ShiftedOut(BigDivSmall(SubSeq(a, cut + 1, Len(a)), 2 ^ (n % LimbBits)),
                      \E i \in 1..cut : a[i] # 0)

RECURSIVE IntTrailingZeros(_)
IntTrailingZeros(n) == IF n % 2 = 1 THEN 0 ELSE 1 + IntTrailingZeros(n \div 2)

\* the number of trailing zero bits of a # 0
BigTrailingZeros(a) ==
  LET i == CHOOSE i \in 1..Len(a) : a[i] # 0 /\ \A j \in 1..(i - 1) : a[j] = 0
  IN  LimbBits * (i - 1) + IntTrailingZeros(a[i])

\* A number is NaN, an infinity, or (-1)^neg * m * 2^e with m a natural
\* number below 2^53 and e at least -1074; m is odd (or zero with e = 0), so
\* every number has one representation and +0 and -0 differ in neg alone.
MantissaBits == 53

MinExponent == -1074

MaxExponent == 1024

NaN == [cls |-> "nan", neg |-> FALSE, m |-> <<>>, e |-> 0]

Infinity(neg) == [cls |-> "inf", neg |-> neg, m |-> <<>>, e |-> 0]

Zero(neg) == [cls |-> "fin", neg |-> neg, m |-> <<>>, e |-> 0]

isNaN(x) == x.cls = "nan"

IsZero(x) == x.cls = "fin" /\ x.m = <<>>

Finite(neg, M, e) ==
  IF M = <<>> THEN Zero(neg)
  ELSE LET z == BigTrailingZeros(M)
       IN  [cls |-> "fin", neg |-> neg, m |-> BigShr(M, z).q, e |-> e + z]

\* The number nearest to (-1)^neg * (M + f) * 2^e, ties to even, where
\* 0 < f < 1 when sticky and f = 0 otherwise (with sticky, M has more than
\* 53 bits).
\* Q, or Q + 1 when the half bit is set and either a lower bit is (rest) or
\* Q is odd
TiesToEven(Q, half, rest) ==
  IF half /\ (rest \/ BigIsOdd(Q)) THEN BigAdd(Q, <<1>>) ELSE Q

\* t.q is the value down to its half bit, t.lost whether a lower bit was set
RoundHalfEven(t, sticky) ==
  TiesToEven(BigShr(t.q, 1).q, BigIsOdd(t.q), t.lost \/ sticky)

\* (-1)^neg * Q * 2^q, an infinity from 2^1024 on
Overflowing(neg, Q, q) ==
  IF BigBitLen(Q) + q > MaxExponent THEN Infinity(neg) ELSE Finite(neg, Q, q)

Round(neg, M, e, sticky) ==
  IF M = <<>> THEN Zero(neg)
  ELSE LET q == Max(BigBitLen(M) + e - MantissaBits, MinExponent)
       IN  IF q <= e THEN Overflowing(neg, M, e)
           ELSE Overflowing(neg, RoundHalfEven(BigShr(M, q - e - 1), sticky), q)

\* the number of an integer of the model, which has fewer than 53 bits
Num(n) == Finite(n < 0, BigOfInt(IF n < 0 THEN 0 - n ELSE n), 0)

\* JSON text has no NaN and no infinity, which become null
Null == [cls |-> "null", neg |-> FALSE, m |-> <<>>, e |-> 0]

\* the number that the operators of JavaScript take an operand for: null is +0
ToNumber(x) == IF x.cls = "null" THEN Zero(FALSE) ELSE x

\* -x
Negate(x) ==
  LET a == ToNumber(x) IN IF isNaN(a) THEN a ELSE [a EXCEPT !.neg = ~a.neg]

\* x * y
Times(x, y) ==
  LET a == ToNumber(x)
      b == ToNumber(y)
  IN  IF isNaN(a) \/ isNaN(b) THEN NaN
      ELSE IF a.cls = "inf" \/ b.cls = "inf"
           THEN IF IsZero(a) \/ IsZero(b) THEN NaN ELSE Infinity(a.neg # b.neg)
      ELSE Round(a.neg # b.neg, BigMul(a.m, b.m), a.e + b.e, FALSE)

\* (-1)^aneg * p * 2^e + (-1)^bneg * q * 2^e for p and q not zero
PlusAligned(aneg, p, bneg, q, e) ==
  IF aneg # bneg /\ p = q THEN Zero(FALSE)
  ELSE Round(IF aneg = bneg \/ BigCmp(p, q) > 0 THEN aneg ELSE bneg,
             IF aneg = bneg THEN BigAdd(p, q)
             ELSE IF BigCmp(p, q) > 0 THEN BigSub(p, q)
             ELSE BigSub(q, p),
             e, FALSE)

\* x + y
Plus(x, y) ==
  LET a == ToNumber(x)
      b == ToNumber(y)
  IN  IF isNaN(a) \/ isNaN(b) THEN NaN
      ELSE IF a.cls = "inf"
           THEN IF b.cls = "inf" /\ a.neg # b.neg THEN NaN ELSE a
      ELSE IF b.cls = "inf" THEN b
      ELSE IF IsZero(a) /\ IsZero(b) THEN Zero(a.neg /\ b.neg)
      ELSE IF IsZero(a) THEN b
      ELSE IF IsZero(b) THEN a
      ELSE LET e == Min(a.e, b.e)
           IN  PlusAligned(a.neg, BigShl(a.m, a.e - e), b.neg, BigShl(b.m, b.e - e), e)

\* x - y
Minus(x, y) == Plus(x, Negate(y))

\* the order of the magnitudes of two finite numbers that are not zero:
\* -1, 0 or 1
CmpMagnitude(a, b) ==
  LET ta == BigBitLen(a.m) + a.e
      tb == BigBitLen(b.m) + b.e
      e == Min(a.e, b.e)
  IN  IF ta # tb THEN (IF ta < tb THEN -1 ELSE 1)
      ELSE BigCmp(BigShl(a.m, a.e - e), BigShl(b.m, b.e - e))

\* x < y and x <= y
Less(x, y) ==
  LET a == ToNumber(x)
      b == ToNumber(y)
  IN  /\ ~isNaN(a) /\ ~isNaN(b)
      /\ IF a.cls = "inf" \/ b.cls = "inf"
         THEN a # b /\ (IF a.cls = "inf" THEN a.neg ELSE ~b.neg)
         ELSE IF IsZero(a) THEN ~IsZero(b) /\ ~b.neg
         ELSE IF IsZero(b) THEN a.neg
         ELSE IF a.neg # b.neg THEN a.neg
         ELSE CmpMagnitude(a, b) = (IF a.neg THEN 1 ELSE -1)

LessEq(x, y) ==
  LET a == ToNumber(x)
      b == ToNumber(y)
  IN  /\ ~isNaN(a) /\ ~isNaN(b)
      /\ \/ Less(a, b)
         \/ a = b
         \/ IsZero(a) /\ IsZero(b)

(* ----------------------- JavaScript conversions ------------------------ *)

DigitChars == <<"0", "1", "2", "3", "4", "5", "6", "7", "8", "9">>

IsDigit(c) == \E i \in 1..10 : DigitChars[i] = c

DigitVal(c) == (CHOOSE i \in 1..10 : DigitChars[i] = c) - 1

HexLower == <<"a", "b", "c", "d", "e", "f">>

HexUpper == <<"A", "B", "C", "D", "E", "F">>

\* the value of c as a digit of the given radix, -1 when it is none
RadixVal(c, radix) ==
  LET v == IF IsDigit(c) THEN DigitVal(c)
           ELSE IF \E i \in 1..6 : HexLower[i] = c
                THEN 9 + CHOOSE i \in 1..6 : HexLower[i] = c
           ELSE IF \E i \in 1..6 : HexUpper[i] = c
                THEN 9 + CHOOSE i \in 1..6 : HexUpper[i] = c
           ELSE -1
  IN  IF v < radix THEN v ELSE -1

\* a * radix^n
RECURSIVE BigTimesPow(_, _, _)
BigTimesPow(a, radix, n) ==
  IF n <= 3 THEN BigMulSmall(a, radix ^ n, 0)
  ELSE LET half == BigTimesPow(a, radix, n \div 2)
       IN  IF half = <<>> THEN <<>>
           ELSE BigTimesPow(half, radix, n - n \div 2)

\* the natural number written by digits of the given radix
RECURSIVE BigOfDigits(_, _)
BigOfDigits(cs, radix) ==
  IF cs = <<>> THEN <<>>
  ELSE IF Len(cs) = 1 THEN BigOfInt(RadixVal(cs[1], radix))
  ELSE LET h == Len(cs) \div 2
           high == BigOfDigits(SubSeq(cs, 1, h), radix)
           low == BigOfDigits(SubSeq(cs, h + 1, Len(cs)), radix)
       IN  IF high = <<>> THEN low
           ELSE BigAdd(BigTimesPow(high, radix, Len(cs) - h), low)

\* StrWhiteSpaceChar of ECMAScript, WhiteSpace and LineTerminator: tab, line
\* feed, form feed, carriage return, space, and by their code points the
\* vertical tab, the no-break space, the other space separators, the line
\* and paragraph separators and the byte order mark
WhiteSpace ==
  {" ", "\t", "\n", "\r", "\f", "U+000B", "U+00A0", "U+1680",
   "U+2000", "U+2001", "U+2002", "U+2003", "U+2004", "U+2005", "U+2006",
   "U+2007", "U+2008", "U+2009", "U+200A", "U+2028", "U+2029", "U+202F",
   "U+205F", "U+3000", "U+FEFF"}

\* str without the white space at its ends
Trim(cs) ==
  IF \A i \in 1..Len(cs) : cs[i] \in WhiteSpace THEN <<>>
  ELSE SubSeq(cs,
              CHOOSE i \in 1..Len(cs) :
                cs[i] \notin WhiteSpace /\ \A j \in 1..(i - 1) : cs[j] \in WhiteSpace,
              CHOOSE i \in 1..Len(cs) :
                cs[i] \notin WhiteSpace /\ \A j \in (i + 1)..Len(cs) : cs[j] \in WhiteSpace)

\* the index after the run of decimal digits of cs that starts at i
DigitsEnd(cs, i) ==
  CHOOSE n \in i..(Len(cs) + 1) :
    /\ \A j \in i..(n - 1) : IsDigit(cs[j])
    /\ n = Len(cs) + 1 \/ ~IsDigit(cs[n])

\* The largest integer of the model's arithmetic, 2^31 - 1: the value of an
\* exponent's digits is held there.  A literal has fewer characters than
\* that, so an exponent held there is beyond its digits and its value is
\* the same infinity or zero as for the exponent written.
ExponentCap == 2147483647

RECURSIVE DigitsValue(_)
DigitsValue(cs) ==
  IF cs = <<>> THEN 0
  ELSE 10 * DigitsValue(SubSeq(cs, 1, Len(cs) - 1)) + DigitVal(cs[Len(cs)])

ExponentValue(cs) ==
  IF \A i \in 1..Len(cs) : cs[i] = "0" THEN 0
  ELSE LET first == CHOOSE i \in 1..Len(cs) :
                      cs[i] # "0" /\ \A j \in 1..(i - 1) : cs[j] = "0"
           sig == SubSeq(cs, first, Len(cs))
           high == DigitsValue(SubSeq(sig, 1, Len(sig) - 1))
           last == DigitVal(sig[Len(sig)])
       IN  IF Len(sig) > 10 THEN ExponentCap
           ELSE IF high > ExponentCap \div 10 THEN ExponentCap
           ELSE IF high = ExponentCap \div 10 /\ last > ExponentCap % 10
                THEN ExponentCap
           ELSE 10 * high + last

\* floor(a / 10^n), and whether the division left a remainder
RECURSIVE BigDivPow10(_, _)
BigDivPow10(a, n) ==
  IF n = 0 THEN [q |-> a, lost |-> FALSE]
  ELSE IF n <= 4
       THEN LET d == BigDivSmall(a, 10 ^ n) IN [q |-> d.q, lost |-> d.r # 0]
  ELSE LET high == BigDivPow10(a, n \div 2)
           low == BigDivPow10(high.q, n - n \div 2)
       IN  IF high.q = <<>> THEN [q |-> <<>>, lost |-> a # <<>>]
           ELSE [q |-> low.q, lost |-> low.lost \/ high.lost]

\* the number nearest to (-1)^neg * (d.q + f) * 2^e, where 0 < f < 1 when
\* d.lost and f = 0 otherwise
RoundQuotient(neg, d, e) == Round(neg, d.q, e, d.lost)

\* the number nearest to (-1)^neg * D * 10^k
DecimalValue(neg, D, k) ==
  IF D = <<>> THEN Zero(neg)
  ELSE IF k >= 0
       THEN IF k > 400 THEN Infinity(neg)
            ELSE Round(neg, BigTimesPow(D, 10, k), 0, FALSE)
  ELSE LET n == 0 - k
           s == Max(0, 64 + 4 * n - BigBitLen(D))
       IN  IF BigBitLen(D) < 3 * n - 1100 THEN Zero(neg)
           ELSE RoundQuotient(neg, BigDivPow10(BigShl(D, s), n), 0 - s)

\* The literal cs whose integer digits end before i1 and whose fraction is
\* cs[f0], ..., cs[f1 - 1]: whether cs is a literal, its digits D and its
\* power of ten k.  The value is D * 10^(ex - n) or D * 10^(-ex - n) for the
\* exponent ex and the n digits of the fraction.  With D > 0 it is infinite
\* for every ex > n + 400, and with a negative exponent it is below 10^-1100
\* and so 0 for every ex >= Len(digits) + 1100: an exponent beyond these is
\* taken at them, which keeps k within the integers.
ExponentPart(cs, i1, f0, f1) ==
  LET hasExp == f1 <= Len(cs) /\ cs[f1] \in {"e", "E"}
      signed == hasExp /\ f1 + 1 <= Len(cs) /\ cs[f1 + 1] \in {"+", "-"}
      x0 == IF signed THEN f1 + 2 ELSE f1 + 1
      x1 == IF hasExp THEN DigitsEnd(cs, x0) ELSE f1
      digits == SubSeq(cs, 1, i1 - 1) \o SubSeq(cs, f0, f1 - 1)
      ex == IF hasExp THEN ExponentValue(SubSeq(cs, x0, x1 - 1)) ELSE 0
      n == f1 - f0
      k == IF signed /\ cs[f1 + 1] = "-"
           THEN 0 - Min(ex, Len(digits) + 1100) - n
           ELSE Min(ex, n + 401) - n
  IN  [ok |-> /\ digits # <<>>
              /\ hasExp => x1 > x0
              /\ x1 = Len(cs) + 1,
       D |-> BigOfDigits(digits, 10),
       k |-> k]

\* the fraction of the literal cs whose integer digits end before i1
FractionPart(cs, i1) ==
  LET f0 == IF i1 <= Len(cs) /\ cs[i1] = "." THEN i1 + 1 ELSE i1
  IN  ExponentPart(cs, i1, f0, DigitsEnd(cs, f0))

\* StrDecimalLiteral without its sign: digits, a fraction, an exponent
StrUnsignedDecimalLiteral(cs) == FractionPart(cs, DigitsEnd(cs, 1))

\* the value of the literal lit with the sign neg, NaN when it is none
StrDecimalLiteral(neg, lit) ==
  IF lit.ok THEN DecimalValue(neg, lit.D, lit.k) ELSE NaN

NonDecimalRadix(cs) ==
  IF Len(cs) < 2 \/ cs[1] # "0" THEN 0
  ELSE IF cs[2] \in {"x", "X"} THEN 16
  ELSE IF cs[2] \in {"o", "O"} THEN 8
  ELSE IF cs[2] \in {"b", "B"} THEN 2
  ELSE 0

InfinityChars == <<"I", "n", "f", "i", "n", "i", "t", "y">>

\* Number(str): StringToNumber of ECMAScript.  Blank is +0; 0x, 0o and 0b
\* introduce unsigned integers; otherwise an optional sign and Infinity or
\* a decimal literal; anything else is NaN.
Number(str) ==
  LET cs == Trim(str)
      radix == NonDecimalRadix(cs)
      neg == cs # <<>> /\ cs[1] = "-"
      body == IF cs # <<>> /\ cs[1] \in {"+", "-"} THEN Tail(cs) ELSE cs
  IN  IF cs = <<>> THEN Zero(FALSE)
      ELSE IF radix # 0
           THEN IF Len(cs) > 2 /\ \A i \in 3..Len(cs) : RadixVal(cs[i], radix) >= 0
                THEN Round(FALSE, BigOfDigits(SubSeq(cs, 3, Len(cs)), radix), 0, FALSE)
                ELSE NaN
      ELSE IF body = InfinityChars THEN Infinity(neg)
      ELSE StrDecimalLiteral(neg, StrUnsignedDecimalLiteral(body))



\* the literals 0.40 and 0.60
Rate040 == Number(<<"0", ".", "4", "0">>)

Rate060 == Number(<<"0", ".", "6", "0">>)

\* weeklyTotal * 0.40 and weeklyTotal * 0.60
PaidNowOf(weeklyTotal) == Times(weeklyTotal, Rate040)

HeldAmountOf(weeklyTotal) == Times(weeklyTotal, Rate060)

(* ------------------------------ inputs --------------------------------- *)

\* Contents of the transaction form at the moment it is submitted.
FormInputs ==
  { [amount |-> <<>>, type |-> INCOME, category |-> "Tea", paymentMethod |-> "CASH", notes |-> ""],
    [amount |-> <<"a">>, type |-> INCOME, category |-> "Tea", paymentMethod |-> "CASH", notes |-> ""],
    [amount |-> <<"5">>, type |-> INCOME, category |-> "Tea", paymentMethod |-> "GPAY", notes |-> "cup"],
    [amount |-> <<"-", "5">>, type |-> EXPENSE, category |-> "Milk", paymentMethod |-> "CASH", notes |-> ""] }

\* The ledger handlers alone are also run with an entry of amount 0 and an
\* entry of amount 0.1, typed after a no-break space.
LedgerFormInputs ==
  FormInputs \cup
  { [amount |-> <<"0">>, type |-> INCOME, category |-> "Tea", paymentMethod |-> "CASH", notes |-> ""],
    [amount |-> <<"U+00A0", "0", ".", "1">>, type |-> INCOME, category |-> "Tea", paymentMethod |-> "CASH", notes |-> ""] }

\* Contents of the staff registration form at the moment it is submitted.
StaffInputs ==
  { [name |-> "", phone |-> "9", address |-> "", aadhaar |-> "", pay |-> <<"1", "0">>],
    [name |-> "Ravi", phone |-> "", address |-> "", aadhaar |-> "", pay |-> <<"1", "0">>],
    [name |-> "Ravi", phone |-> "9", address |-> "", aadhaar |-> "", pay |-> <<>>],
    [name |-> "Ravi", phone |-> "9", address |-> "Pune", aadhaar |-> "1234", pay |-> <<"1", "0">>],
    [name |-> "Anu", phone |-> "8", address |-> "", aadhaar |-> "", pay |-> <<"-", "1", "0">>] }

\* The staff handlers alone are run with a form that is rejected, with weekly
\* pays of 10 and of 7, of which 40% and 60% are not doubles, and with a pay
\* that is not a number.
PayrollStaffInputs ==
  { f \in StaffInputs : f.name = "" \/ f.address = "Pune" } \cup
  { [name |-> "Uma", phone |-> "7", address |-> "", aadhaar |-> "", pay |-> <<"7">>],
    [name |-> "Uma", phone |-> "7", address |-> "", aadhaar |-> "", pay |-> <<"a">>] }

(* ------------------------------ storage -------------------------------- *)

\* the properties of the records that hold numbers
NumberFields == {"amount", "weeklyBasePay", "totalHeldBalance"}

\* a number as JSON text reads back: NaN and the infinities are written as
\* null, -0 as 0, every other number as a decimal that reads back as itself
JsonNumber(x) ==
  IF x.cls \in {"nan", "inf", "null"} THEN Null
  ELSE IF IsZero(x) THEN Zero(FALSE)
  ELSE x

\* JSON.stringify of a collection: a property whose value is undefined
\* (staffId of a manual entry) is left out.
stringify(xs) ==
  [k \in 1..Len(xs) |->
     LET fields == IF "staffId" \in DOMAIN xs[k] /\ xs[k].staffId = NoStaff
                   THEN DOMAIN xs[k] \ {"staffId"}
                   ELSE DOMAIN xs[k]
     IN  [f \in fields |->
            IF f \in NumberFields THEN JsonNumber(xs[k][f]) ELSE xs[k][f]]]

\* JSON.parse of a collection, as the app reads it back: a missing staffId
\* reads as undefined.
parse(json) ==
  [k \in 1..Len(json) |->
     IF "amount" \in DOMAIN json[k] /\ "staffId" \notin DOMAIN json[k]
     THEN [f \in DOMAIN json[k] \cup {"staffId"} |->
             IF f = "staffId" THEN NoStaff ELSE json[k][f]]
     ELSE json[k]]

\* localStorage.getItem(key): null, or the string stored
NoItem == [saved |-> FALSE, json |-> <<>>]

Item(json) == [saved |-> TRUE, json |-> json]

\* The save effects of the render that follows a handler: each runs when its
\* collection was set.
saveEffects ==
  storage' = [chai_transactions |->
                IF transactions' = transactions THEN storage.chai_transactions
                ELSE Item(stringify(transactions')),
              chai_staff |->
                IF staff' = staff THEN storage.chai_staff
                ELSE Item(stringify(staff'))]

\* What the handlers leave alone: the advice card and start-up.
session == saveEffects /\ UNCHANGED <<advice, startup>>

(* --------------------------- App callbacks ----------------------------- *)

\* the instants a later reading of the clock can give
LaterReads == now..(SessionStart + MaxClock)

\* n readings of the clock one after the other, none before the instant from
RECURSIVE ReadsFrom(_, _)
ReadsFrom(from, n) ==
  IF n = 0 THEN {<<>>}
  ELSE UNION {{<<r>> \o rest : rest \in ReadsFrom(r, n - 1)} :
                r \in from..(SessionStart + MaxClock)}

\* The readings of a computation of dailyChartData, which the render makes
\* that follows a call of setTransactions: one new Date() per point, the
\* first not before the instant from.
ChartReads(from) == ReadsFrom(from, TrendDays)

\* the seven readings at one instant
AllAt(t) == [k \in 1..TrendDays |-> t]

\* the application is rendered: it has started and no render has failed
Rendered == boot = "ready"

\* a balance the model follows: NaN, or a number of at most MaxHeld either way
Within(x) == isNaN(x) \/ (LessEq(Num(0 - MaxHeld), x) /\ LessEq(x, Num(MaxHeld)))

\* ${heldAmount} in the notes of a weekly pay: the text of a number, one text
\* for each number except that -0 is written as 0 is
HeldText(x) == IF x.cls = "fin" /\ IsZero(x) THEN Zero(FALSE) ELSE x

addTransaction_Append(t, prev, editing) ==
  IF editing # <<>>
  THEN [transactions |-> [k \in 1..Len(prev) |-> IF prev[k].id = t.id THEN t ELSE prev[k]],
        editingTransaction |-> <<>>,
        error |-> "none"]
  ELSE [transactions |-> Append(prev, t),
        editingTransaction |-> editing,
        error |-> "none"]

\* addTransaction: in edit mode replace every item whose id matches and leave
\* edit mode, otherwise prepend.  The function returns nothing and throws
\* nothing on either branch: error is "none" whether or not an id matched.
addTransaction(t, prev, editing) ==
  IF editing # <<>>
  THEN [transactions |-> [k \in 1..Len(prev) |-> IF prev[k].id = t.id THEN t ELSE prev[k]],
        editingTransaction |-> <<>>,
        error |-> "none"]
  ELSE [transactions |-> <<t>> \o prev,
        editingTransaction |-> editing,
        error |-> "none"]

addStaff(s, prev) == Append(prev, s)

updateStaff(updated, prev) ==
  [k \in 1..Len(prev) |-> IF prev[k].id = updated.id THEN updated ELSE prev[k]]

NothingHeld_OnlyNegative(s) == Less(s.totalHeldBalance, Num(0))

\* the early return of settleMonthlyHold
NothingHeld(s) == LessEq(s.totalHeldBalance, Num(0))

(* --------------------------- derived figures --------------------------- *)

RECURSIVE reduceTotals(_, _)
reduceTotals(ts, acc) ==
  IF ts = <<>> THEN acc
  ELSE reduceTotals(Tail(ts),
                    IF Head(ts).type = INCOME
                    THEN [acc EXCEPT !.income = Plus(@, Head(ts).amount)]
                    ELSE [acc EXCEPT !.expenses = Plus(@, Head(ts).amount)])

totals_Today(ts) ==
  reduceTotals(SelectSeq(ts, LAMBDA t : t.date = now),
               [income |-> Num(0), expenses |-> Num(0)])

totals(ts) == reduceTotals(ts, [income |-> Num(0), expenses |-> Num(0)])

profit(ts) == Minus(totals(ts).income, totals(ts).expenses)

\* x || 0: NaN, 0, -0 and null are falsy
OrZero(x) == IF isNaN(ToNumber(x)) \/ IsZero(ToNumber(x)) THEN Num(0) ELSE x

\* acc[name] = (acc[name] || 0) + amount, keys kept in insertion order
addToCount(acc, name, amount) ==
  IF \E k \in 1..Len(acc) : acc[k].name = name
  THEN [k \in 1..Len(acc) |->
          IF acc[k].name = name
          THEN [acc[k] EXCEPT !.value = Plus(OrZero(@), amount)]
          ELSE acc[k]]
  ELSE Append(acc, [name |-> name, value |-> Plus(Num(0), amount)])

RECURSIVE reduceCounts(_, _)
reduceCounts(ts, acc) ==
  IF ts = <<>> THEN acc
  ELSE reduceCounts(Tail(ts),
                    IF Head(ts).type = INCOME
                    THEN addToCount(acc, Head(ts).paymentMethod, Head(ts).amount)
                    ELSE acc)

\* Object.entries(counts).map(([name, value]) => ({ name, value }))
paymentData(ts) == reduceCounts(ts, <<>>)

\* the calendar day of an instant: the date part of toISOString()
DayOf(t) == t \div TicksPerDay

\* reduce((sum, t) => sum + t.amount, sum)
RECURSIVE reduceAmounts(_, _)
reduceAmounts(ts, sum) ==
  IF ts = <<>> THEN sum
  ELSE reduceAmounts(Tail(ts), Plus(sum, Head(ts).amount))

sumAmounts(ts) == reduceAmounts(ts, Num(0))

\* The zone of the device: local time is UTC + std, and UTC + dst from the
\* instant from up to the instant until.
Hours(h) == (h * TicksPerDay) \div 24

UTCZone == [std |-> 0, dst |-> 0, from |-> 0, until |-> 0]

Kolkata == [std |-> (11 * TicksPerDay) \div 48, dst |-> (11 * TicksPerDay) \div 48,
            from |-> 0, until |-> 0]

\* New York in a year in which summer time began on day 0 at 07:00 UTC
NewYorkSpring ==
  [std |-> 0 - Hours(5), dst |-> 0 - Hours(4),
   from |-> Hours(7), until |-> Hours(6) + 238 * TicksPerDay]

\* New York in a year in which summer time ended on day 0 at 06:00 UTC
NewYorkAutumn ==
  [std |-> 0 - Hours(5), dst |-> 0 - Hours(4),
   from |-> Hours(7) - 238 * TicksPerDay, until |-> Hours(6)]

DeviceZones == {UTCZone, Kolkata, NewYorkSpring, NewYorkAutumn}

\* the offset of local time from UTC at instant t
OffsetAt(zone, t) ==
  IF zone.from <= t /\ t < zone.until THEN zone.dst ELSE zone.std

\* LocalTime(t) of ECMAScript
LocalTime(zone, t) == t + OffsetAt(zone, t)

\* UTC(t) of ECMAScript: the instant at which the local clock shows tlocal;
\* the earlier one when the clock shows it twice, and when it never shows it
\* (the clock was put forward over it) the offset before the change is used
UTC(zone, tlocal) ==
  LET possible == {t \in {tlocal - zone.std, tlocal - zone.dst} :
                     t + OffsetAt(zone, t) = tlocal}
  IN  IF possible # {} THEN CHOOSE t \in possible : \A u \in possible : t <= u
      ELSE tlocal - Min(zone.std, zone.dst)

\* d = new Date() at instant t0; d.setDate(d.getDate() - i); the instant of d
setDateBack(zone, t0, i) == UTC(zone, LocalTime(zone, t0) - i * TicksPerDay)

\* Array.from({ length: 7 }, (_, i) => ...).reverse(): the callback of point
\* i reads the clock at reads[i + 1] and gives the UTC date of the local day
\* i days before; reversed, the oldest comes first
last7Days(reads, zone) ==
  [k \in 1..TrendDays |->
     DayOf(setDateBack(zone, reads[TrendDays + 1 - k], TrendDays - k))]

\* dailyChartData as computed with the clock read at reads on a device in the
\* zone
dailyChart(ts, reads, zone) ==
  [k \in 1..TrendDays |->
     LET date == last7Days(reads, zone)[k]
         dayT == SelectSeq(ts, LAMBDA t : DayOf(t.date) = date)
     IN [date |-> date,
         income |-> sumAmounts(SelectSeq(dayT, LAMBDA t : t.type = INCOME)),
         expense |-> sumAmounts(SelectSeq(dayT, LAMBDA t : t.type = EXPENSE))]]

\* the memoised chart: the ledger has not changed since it was computed, with
\* the clock read at dailyChartAt
dailyChartData(zone) == dailyChart(transactions, dailyChartAt, zone)

RECURSIVE reduceHeld(_, _)
reduceHeld(st, acc) ==
  IF st = <<>> THEN acc
  ELSE reduceHeld(Tail(st), Plus(acc, Head(st).totalHeldBalance))

totalEscrowLiability_First(st) ==
  IF st = <<>> THEN Num(0) ELSE Plus(Num(0), Head(st).totalHeldBalance)

\* staff.reduce((acc, curr) => acc + curr.totalHeldBalance, 0)
totalEscrowLiability(st) == reduceHeld(st, Num(0))

(* ---------------------------- initial state ---------------------------- *)

NoId == [pfx |-> "none", at |-> -1, sid |-> NoStaff]

\* an id that no handler ever issues
AbsentId == [pfx |-> "", at |-> -1, sid |-> NoStaff]

\* the ids deleteTransaction can be asked to remove
DeleteIds == {transactions[k].id : k \in 1..Len(transactions)} \cup {AbsentId}

NoForm == [amount |-> <<>>, type |-> "", category |-> "", paymentMethod |-> "", notes |-> ""]

\* lastOp records the handler that ran last: its name, the staff card it was
\* invoked on (arg), the form it was submitted with, whether it got past its
\* early return (accepted), whether an edit was in progress when it was called
\* (editing), the error it signalled and the id it was asked to delete.
Op(name, arg, form, accepted) ==
  [op |-> name, arg |-> arg, form |-> form, accepted |-> accepted,
   editing |-> editingTransaction # <<>>, error |-> "none", id |-> NoId]

Init ==
  /\ transactions = <<>>
  /\ staff = <<>>
  /\ editingTransaction = <<>>
  /\ activeTab = "dashboard"
  /\ now = SessionStart
  /\ dailyChartAt = AllAt(SessionStart)
  /\ accrued = <<>>
  /\ lastOp = [op |-> "init", arg |-> 0, form |-> NoForm, accepted |-> TRUE,
               editing |-> FALSE, error |-> "none", id |-> NoId]
  /\ insights = "Recording data to generate AI insights..."
  /\ loadingInsights = FALSE
  /\ pending = "none"
  /\ storage = [chai_transactions |-> Item(<<>>), chai_staff |-> Item(<<>>)]
  /\ boot = "ready"
  /\ queued = [transactions |-> NoItem, staff |-> NoItem]

(* ------------------------------- actions ------------------------------- *)

Tick ==
  /\ now < SessionStart + MaxClock
  /\ now' = now + 1
  /\ lastOp' = Op("tick", 0, NoForm, TRUE)
  /\ UNCHANGED <<transactions, staff, editingTransaction, activeTab, dailyChartAt, accrued>>
  /\ session

setActiveTab(tab) ==
  /\ Rendered
  /\ activeTab # tab
  /\ activeTab' = tab
  /\ lastOp' = Op("setActiveTab", 0, NoForm, TRUE)
  /\ UNCHANGED <<transactions, staff, editingTransaction, now, dailyChartAt, accrued>>
  /\ session

\* TransactionForm.handleSubmit, including the onAdd call, and the render
\* that follows it.  Date.now() is read at now and new Date() at d; an edit
\* reads neither; the render reads the clock at reads.
handleSubmit(f) ==
  /\ Rendered
  /\ activeTab = "dashboard"
  /\ IF f.amount = <<>> \/ isNaN(Number(f.amount))
     THEN /\ lastOp' = Op("handleSubmit", 0, f, FALSE)
          /\ UNCHANGED <<transactions, staff, editingTransaction, activeTab, now,
                         dailyChartAt, accrued>>
     ELSE /\ editingTransaction = <<>> => Len(transactions) < MaxTx
          /\ \E d \in LaterReads : \E reads \in ChartReads(d) :
               LET transactionData ==
                     [id |-> IF editingTransaction # <<>> THEN editingTransaction[1].id
                             ELSE [pfx |-> "", at |-> now, sid |-> NoStaff],
                      date |-> IF editingTransaction # <<>> THEN editingTransaction[1].date ELSE d,
                      amount |-> Number(f.amount),
                      category |-> f.category,
                      type |-> f.type,
                      paymentMethod |-> f.paymentMethod,
                      notes |-> [text |-> f.notes, name |-> "", held |-> Num(0)],
                      staffId |-> IF editingTransaction # <<>> THEN editingTransaction[1].staffId
                                  ELSE NoStaff]
                   r == addTransaction(transactionData, transactions, editingTransaction)
               IN /\ editingTransaction # <<>> => d = now
                  /\ now' = reads[TrendDays]
                  /\ dailyChartAt' = reads
                  /\ transactions' = r.transactions
                  /\ editingTransaction' = r.editingTransaction
                  /\ lastOp' = [Op("handleSubmit", 0, f, TRUE) EXCEPT !.error = r.error]
                  /\ UNCHANGED <<staff, activeTab, accrued>>
  /\ session

\* the dashboard lists the first 5 transactions, the ledger tab all of them
RecentRows == 5

\* editingTransaction.amount.toString() in the effect of TransactionForm
\* throws on null, which is what JSON.parse gives for an amount that was
\* stored as null
ToStringThrows(t) == t.amount = Null

\* handleEditClick(t) on the row at position i, and the render that follows
\* it: the effect of TransactionForm loads the row into the form.  When it
\* throws, the two state updates are committed, nothing catches the
\* TypeError and React unmounts the application.
handleEditClick(i) ==
  /\ Rendered
  /\ activeTab \in {"dashboard", "logs"}
  /\ i \in 1..Len(transactions)
  /\ activeTab = "dashboard" => i <= RecentRows
  /\ editingTransaction' = <<transactions[i]>>
  /\ activeTab' = "dashboard"
  /\ boot' = IF ToStringThrows(transactions[i]) THEN "unmounted" ELSE boot
  /\ lastOp' = [Op("handleEditClick", 0, NoForm, TRUE) EXCEPT
                  !.error = IF ToStringThrows(transactions[i])
                            THEN "TypeError" ELSE "none"]
  /\ UNCHANGED <<transactions, staff, now, dailyChartAt, accrued, advice, queued>>
  /\ saveEffects

onCancelEdit ==
  /\ Rendered
  /\ activeTab = "dashboard"
  /\ editingTransaction # <<>>
  /\ editingTransaction' = <<>>
  /\ lastOp' = Op("onCancelEdit", 0, NoForm, TRUE)
  /\ UNCHANGED <<transactions, staff, activeTab, now, dailyChartAt, accrued>>
  /\ session

deleteTransaction_Refund(id, confirm) ==
  /\ Rendered
  /\ activeTab = "logs"
  /\ IF confirm
     THEN \E reads \in ChartReads(now) :
          /\ now' = reads[TrendDays]
          /\ dailyChartAt' = reads
          /\ transactions' = SelectSeq(transactions, LAMBDA t : t.id # id)
          /\ editingTransaction' =
               IF editingTransaction # <<>> /\ editingTransaction[1].id = id
               THEN <<>> ELSE editingTransaction
          /\ staff' = [k \in 1..Len(staff) |->
                         IF id.sid = staff[k].id
                         THEN [staff[k] EXCEPT !.totalHeldBalance = Num(0)]
                         ELSE staff[k]]
     ELSE UNCHANGED <<transactions, editingTransaction, now, dailyChartAt, staff>>
  /\ lastOp' = [Op("deleteTransaction", 0, NoForm, confirm) EXCEPT !.id = id]
  /\ UNCHANGED <<activeTab, accrued>>
  /\ session

deleteTransaction_KeepsEdit(id, confirm) ==
  /\ Rendered
  /\ activeTab = "logs"
  /\ IF confirm
     THEN \E reads \in ChartReads(now) :
          /\ now' = reads[TrendDays]
          /\ dailyChartAt' = reads
          /\ transactions' = SelectSeq(transactions, LAMBDA t : t.id # id)
     ELSE UNCHANGED <<transactions, now, dailyChartAt>>
  /\ lastOp' = [Op("deleteTransaction", 0, NoForm, confirm) EXCEPT !.id = id]
  /\ UNCHANGED <<editingTransaction, staff, activeTab, accrued>>
  /\ session

\* deleteTransaction(id); confirm is the answer to window.confirm.  The
\* render that follows a deletion reads the clock at reads.
deleteTransaction(id, confirm) ==
  /\ Rendered
  /\ activeTab = "logs"
  /\ IF confirm
     THEN \E reads \in ChartReads(now) :
          /\ now' = reads[TrendDays]
          /\ dailyChartAt' = reads
          /\ transactions' = SelectSeq(transactions, LAMBDA t : t.id # id)
          /\ editingTransaction' =
               IF editingTransaction # <<>> /\ editingTransaction[1].id = id
               THEN <<>> ELSE editingTransaction
     ELSE UNCHANGED <<transactions, editingTransaction, now, dailyChartAt>>
  /\ lastOp' = [Op("deleteTransaction", 0, NoForm, confirm) EXCEPT !.id = id]
  /\ UNCHANGED <<staff, activeTab, accrued>>
  /\ session

\* handleAddStaff: Date.now() is read at now and new Date() at d.
handleAddStaff(f) ==
  /\ Rendered
  /\ activeTab = "staff"
  /\ IF f.name = "" \/ f.pay = <<>> \/ f.phone = ""
     THEN /\ lastOp' = Op("handleAddStaff", 0, NoForm, FALSE)
          /\ UNCHANGED <<staff, accrued, now>>
     ELSE \E d \in LaterReads :
          /\ Len(staff) < MaxStaff
          /\ now' = d
          /\ staff' = addStaff([id |-> now,
                                name |-> f.name,
                                phone |-> f.phone,
                                address |-> f.address,
                                aadhaar |-> f.aadhaar,
                                weeklyBasePay |-> Number(f.pay),
                                totalHeldBalance |-> Num(0),
                                joinedDate |-> d], staff)
          /\ accrued' = Append(accrued, Num(0))
          /\ lastOp' = Op("handleAddStaff", 0, NoForm, TRUE)
  /\ UNCHANGED <<transactions, editingTransaction, activeTab, dailyChartAt>>
  /\ session

\* processWeeklyPay(s) for the staff card at position i: Date.now() is read at
\* now and new Date() at d; the render follows once the alert is dismissed
\* and reads the clock at reads.
processWeeklyPay(i) ==
  /\ Rendered
  /\ activeTab = "staff"
  /\ i \in 1..Len(staff)
  /\ \E d \in LaterReads : \E reads \in ChartReads(d) :
     LET s == staff[i]
         weeklyTotal == s.weeklyBasePay
         paidNow == PaidNowOf(weeklyTotal)
         heldAmount == HeldAmountOf(weeklyTotal)
         newBalance == Plus(s.totalHeldBalance, heldAmount)
         r == addTransaction([id |-> [pfx |-> "pay", at |-> now, sid |-> s.id],
                              date |-> d,
                              amount |-> paidNow,
                              category |-> "Staff - Weekly",
                              type |-> EXPENSE,
                              paymentMethod |-> "CASH",
                              notes |-> [text |-> "Weekly 40% pay", name |-> s.name,
                                         held |-> HeldText(heldAmount)],
                              staffId |-> s.id],
                             transactions, editingTransaction)
     IN /\ editingTransaction = <<>> => Len(transactions) < MaxTx
        /\ now' = reads[TrendDays]
        /\ dailyChartAt' = reads
        /\ Within(newBalance)
        /\ Within(Plus(accrued[i], heldAmount))
        /\ transactions' = r.transactions
        /\ editingTransaction' = r.editingTransaction
        /\ staff' = updateStaff([s EXCEPT !.totalHeldBalance = newBalance], staff)
        /\ accrued' = [accrued EXCEPT ![i] = Plus(@, heldAmount)]
        /\ lastOp' = [Op("processWeeklyPay", i, NoForm, TRUE) EXCEPT !.error = r.error]
  /\ UNCHANGED activeTab
  /\ session

\* settleMonthlyHold(s) for the staff card at position i: Date.now() is read
\* at now and new Date() at d; the render follows once the alert is dismissed
\* and reads the clock at reads.
settleMonthlyHold(i) ==
  /\ Rendered
  /\ activeTab = "staff"
  /\ i \in 1..Len(staff)
  /\ LET s == staff[i]
         amountToPay == s.totalHeldBalance
     IN IF NothingHeld(s)
        THEN /\ lastOp' = Op("settleMonthlyHold", i, NoForm, FALSE)
             /\ UNCHANGED <<transactions, editingTransaction, now, dailyChartAt, staff, accrued>>
        ELSE \E d \in LaterReads : \E reads \in ChartReads(d) :
             LET r == addTransaction([id |-> [pfx |-> "settle", at |-> now, sid |-> s.id],
                                      date |-> d,
                                      amount |-> amountToPay,
                                      category |-> "Staff - Month End",
                                      type |-> EXPENSE,
                                      paymentMethod |-> "CASH",
                                      notes |-> [text |-> "Month-end settlement (held 60%)",
                                                 name |-> s.name, held |-> Num(0)],
                                      staffId |-> s.id],
                                     transactions, editingTransaction)
             IN /\ editingTransaction = <<>> => Len(transactions) < MaxTx
                /\ now' = reads[TrendDays]
                /\ dailyChartAt' = reads
                /\ Within(Minus(accrued[i], amountToPay))
                /\ transactions' = r.transactions
                /\ editingTransaction' = r.editingTransaction
                /\ staff' = updateStaff([s EXCEPT !.totalHeldBalance = Num(0)], staff)
                /\ accrued' = [accrued EXCEPT ![i] = Minus(@, amountToPay)]
                /\ lastOp' = [Op("settleMonthlyHold", i, NoForm, TRUE) EXCEPT !.error = r.error]
  /\ UNCHANGED activeTab
  /\ session

(* ---------------------------- the advice card -------------------------- *)

FallbackMessage == "Could not generate insights at this time. Keep tracking your sales!"

fetchInsights_NoThreshold(built) ==
  /\ Rendered
  /\ activeTab = "dashboard"
  /\ ~loadingInsights
  /\ loadingInsights' = TRUE
  /\ pending' = IF built THEN "generateContent" ELSE "none"
  /\ lastOp' = Op("fetchInsights", 0, NoForm, TRUE)
  /\ UNCHANGED <<transactions, staff, editingTransaction, activeTab, now, dailyChartAt,
                 accrued, insights, storage, startup>>

\* fetchInsights, from the click on Refresh (disabled while loading) to the
\* await: below the threshold it returns; otherwise it sets the loading flag
\* and calls getBusinessInsights, which constructs the client outside its try
\* block (built: the constructor returned; otherwise it threw, the promise is
\* rejected and the rest of fetchInsights never runs) and calls
\* generateContent.
fetchInsights(built) ==
  /\ Rendered
  /\ activeTab = "dashboard"
  /\ ~loadingInsights
  /\ IF Len(transactions) < MinForInsights
     THEN /\ lastOp' = Op("fetchInsights", 0, NoForm, FALSE)
          /\ UNCHANGED <<loadingInsights, pending>>
     ELSE /\ loadingInsights' = TRUE
          /\ pending' = IF built THEN "generateContent" ELSE "none"
          /\ lastOp' = Op("fetchInsights", 0, NoForm, TRUE)
  /\ UNCHANGED <<transactions, staff, editingTransaction, activeTab, now, dailyChartAt,
                 accrued, insights, storage, startup>>

\* The generateContent promise settles: getBusinessInsights returns the text,
\* or its catch block returns the fallback message, and fetchInsights resumes
\* after its await.  setInsights and setLoadingInsights do nothing once the
\* application is unmounted.
getBusinessInsights(resolved) ==
  /\ pending = "generateContent"
  /\ IF Rendered
     THEN /\ insights' = IF resolved THEN "advice" ELSE FallbackMessage
          /\ loadingInsights' = FALSE
     ELSE UNCHANGED <<insights, loadingInsights>>
  /\ pending' = "none"
  /\ lastOp' = Op("getBusinessInsights", 0, NoForm, resolved)
  /\ UNCHANGED <<transactions, staff, editingTransaction, activeTab, now, dailyChartAt,
                 accrued, storage, startup>>

(* ------------------------------- start-up ------------------------------ *)

\* The first render and its effects, in source order: the render computes
\* the chart, reading the clock at reads; the load effect reads both keys and
\* queues setTransactions / setStaff for the keys that hold a value; the save
\* effects then write the collections of this render, which are the initial
\* empty ones.
mount ==
  /\ boot = "start"
  /\ \E reads \in ChartReads(now) :
       now' = reads[TrendDays] /\ dailyChartAt' = reads
  /\ queued' = [transactions |-> storage.chai_transactions, staff |-> storage.chai_staff]
  /\ storage' = [chai_transactions |-> Item(stringify(transactions)),
                 chai_staff |-> Item(stringify(staff))]
  /\ boot' = IF storage.chai_transactions.saved \/ storage.chai_staff.saved
             THEN "mounted" ELSE "ready"
  /\ lastOp' = Op("mount", 0, NoForm, TRUE)
  /\ UNCHANGED <<transactions, staff, editingTransaction, activeTab, accrued, advice>>

\* The render of the queued updates and its save effects; it computes the
\* chart again when setTransactions was queued, reading the clock at reads.
rerender ==
  /\ boot = "mounted"
  /\ IF queued.transactions.saved
     THEN \E reads \in ChartReads(now) :
            now' = reads[TrendDays] /\ dailyChartAt' = reads
     ELSE UNCHANGED <<now, dailyChartAt>>
  /\ transactions' = IF queued.transactions.saved
                     THEN parse(queued.transactions.json) ELSE transactions
  /\ staff' = IF queued.staff.saved THEN parse(queued.staff.json) ELSE staff
  /\ accrued' = [k \in 1..Len(staff') |-> staff'[k].totalHeldBalance]
  /\ storage' = [chai_transactions |->
                   IF queued.transactions.saved
                   THEN Item(stringify(transactions')) ELSE storage.chai_transactions,
                 chai_staff |->
                   IF queued.staff.saved
                   THEN Item(stringify(staff')) ELSE storage.chai_staff]
  /\ boot' = "ready"
  /\ queued' = [transactions |-> NoItem, staff |-> NoItem]
  /\ lastOp' = Op("rerender", 0, NoForm, TRUE)
  /\ UNCHANGED <<editingTransaction, activeTab, advice>>

Next ==
  \/ Tick
  \/ \E tab \in Tabs : setActiveTab(tab)
  \/ \E f \in FormInputs : handleSubmit(f)
  \/ \E i \in 1..MaxTx : handleEditClick(i)
  \/ onCancelEdit
  \/ \E id \in DeleteIds, confirm \in BOOLEAN : deleteTransaction(id, confirm)
  \/ \E f \in StaffInputs : handleAddStaff(f)
  \/ \E i \in 1..MaxStaff : processWeeklyPay(i)
  \/ \E i \in 1..MaxStaff : settleMonthlyHold(i)

Spec == Init /\ [][Next]_vars

\* The clock does not advance while a handler runs and the application is
\* rendered again: all their readings give one instant.
OneReading == now' = now

\* The ledger handlers alone: manual entry, edit and delete, with no staff.
NextLedger ==
  \/ Tick
  \/ \E tab \in Tabs : setActiveTab(tab)
  \/ \E f \in LedgerFormInputs : OneReading /\ handleSubmit(f)
  \/ \E i \in 1..MaxTx : handleEditClick(i)
  \/ onCancelEdit
  \/ \E id \in DeleteIds, confirm \in BOOLEAN :
       OneReading /\ deleteTransaction(id, confirm)

SpecLedger == Init /\ [][NextLedger]_vars

\* The staff handlers alone, on the staff tab: registration, weekly pay and
\* settlement.  The clock advances only while a registration runs.
NextPayroll ==
  \/ setActiveTab("staff")
  \/ \E f \in PayrollStaffInputs : handleAddStaff(f)
  \/ \E i \in 1..MaxStaff : OneReading /\ processWeeklyPay(i)
  \/ \E i \in 1..MaxStaff : OneReading /\ settleMonthlyHold(i)

SpecPayroll == Init /\ [][NextPayroll]_vars

\* All handlers, with one staff card and the clock read at one instant.
NextOneCard ==
  \/ \E tab \in Tabs : setActiveTab(tab)
  \/ \E f \in FormInputs : OneReading /\ handleSubmit(f)
  \/ \E i \in 1..MaxTx : handleEditClick(i)
  \/ onCancelEdit
  \/ \E id \in DeleteIds, confirm \in BOOLEAN :
       OneReading /\ deleteTransaction(id, confirm)
  \/ \E f \in StaffInputs : staff = <<>> /\ OneReading /\ handleAddStaff(f)
  \/ OneReading /\ processWeeklyPay(1)
  \/ OneReading /\ settleMonthlyHold(1)

SpecOneCard == Init /\ [][NextOneCard]_vars

\* The entry form with a positive amount and the registration form with all
\* fields given and a positive pay.
ValidForms == {f \in FormInputs : f.amount = <<"5">>}

ValidStaffForms == {f \in StaffInputs : f.name = "Ravi" /\ f.phone = "9" /\ f.pay # <<>>}

\* All handlers over time, with one staff card, accepted forms and confirmed
\* deletions.
NextTimeline ==
  \/ Tick
  \/ \E tab \in Tabs : setActiveTab(tab)
  \/ \E f \in ValidForms : handleSubmit(f)
  \/ \E i \in 1..MaxTx : handleEditClick(i)
  \/ onCancelEdit
  \/ \E id \in DeleteIds : deleteTransaction(id, TRUE)
  \/ \E f \in ValidStaffForms : staff = <<>> /\ handleAddStaff(f)
  \/ processWeeklyPay(1)
  \/ settleMonthlyHold(1)

SpecTimeline == Init /\ [][NextTimeline]_vars

\* A sale entered in an earlier session, ago ticks before this one
EarlierSale(ago) ==
  [id |-> [pfx |-> "", at |-> SessionStart - ago, sid |-> NoStaff],
   date |-> SessionStart - ago,
   amount |-> Num(5),
   category |-> "Tea",
   type |-> INCOME,
   paymentMethod |-> "GPAY",
   notes |-> [text |-> "cup", name |-> "", held |-> Num(0)],
   staffId |-> NoStaff]

\* the member of an earlier session
EarlierStaffId == SessionStart - 3

\* What a member registered with a pay that is not a number leaves when the
\* weekly pay is processed: the pay, the amount paid and the balance are NaN.
UnpaidStaffId == SessionStart - 5

UnpaidMember ==
  [id |-> UnpaidStaffId, name |-> "Uma", phone |-> "7",
   address |-> "", aadhaar |-> "",
   weeklyBasePay |-> Number(<<"a">>),
   totalHeldBalance |-> Plus(Num(0), HeldAmountOf(Number(<<"a">>))),
   joinedDate |-> UnpaidStaffId]

UnpaidWeek ==
  [id |-> [pfx |-> "pay", at |-> SessionStart - 4, sid |-> UnpaidStaffId],
   date |-> SessionStart - 4,
   amount |-> PaidNowOf(UnpaidMember.weeklyBasePay),
   category |-> "Staff - Weekly",
   type |-> EXPENSE,
   paymentMethod |-> "CASH",
   notes |-> [text |-> "Weekly 40% pay", name |-> "Uma",
              held |-> HeldText(HeldAmountOf(UnpaidMember.weeklyBasePay))],
   staffId |-> UnpaidStaffId]

\* What an earlier session can have left in localStorage: nothing (first
\* run), three sales, a sale and a weekly pay with the member paid, or the
\* weekly pay of a member whose pay is not a number, written as null.
SavedStorages ==
  { [chai_transactions |-> NoItem, chai_staff |-> NoItem],
    [chai_transactions |-> Item(stringify(<<EarlierSale(1), EarlierSale(2), EarlierSale(3)>>)),
     chai_staff |-> Item(<<>>)],
    [chai_transactions |->
       Item(stringify(<<EarlierSale(1),
                        [id |-> [pfx |-> "pay", at |-> SessionStart - 2, sid |-> EarlierStaffId],
                         date |-> SessionStart - 2,
                         amount |-> PaidNowOf(Num(10)),
                         category |-> "Staff - Weekly",
                         type |-> EXPENSE,
                         paymentMethod |-> "CASH",
                         notes |-> [text |-> "Weekly 40% pay", name |-> "Ravi",
                                    held |-> HeldText(HeldAmountOf(Num(10)))],
                         staffId |-> EarlierStaffId]>>)),
     chai_staff |->
       Item(stringify(<<[id |-> EarlierStaffId, name |-> "Ravi", phone |-> "9",
                         address |-> "Pune", aadhaar |-> "1234",
                         weeklyBasePay |-> Num(10),
                         totalHeldBalance |-> HeldAmountOf(Num(10)),
                         joinedDate |-> EarlierStaffId]>>))],
    [chai_transactions |-> Item(stringify(<<UnpaidWeek>>)),
     chai_staff |-> Item(stringify(<<UnpaidMember>>))] }

\* The application is started on what an earlier session left; nothing is
\* rendered yet, and mount takes the first readings of the clock.
InitStart ==
  /\ transactions = <<>>
  /\ staff = <<>>
  /\ editingTransaction = <<>>
  /\ activeTab = "dashboard"
  /\ now = SessionStart
  /\ dailyChartAt = AllAt(SessionStart)
  /\ accrued = <<>>
  /\ lastOp = [op |-> "init", arg |-> 0, form |-> NoForm, accepted |-> TRUE,
               editing |-> FALSE, error |-> "none", id |-> NoId]
  /\ insights = "Recording data to generate AI insights..."
  /\ loadingInsights = FALSE
  /\ pending = "none"
  /\ storage \in SavedStorages
  /\ boot = "start"
  /\ queued = [transactions |-> NoItem, staff |-> NoItem]

\* A session: start-up, whose two renders read the clock freely, then the
\* ledger, payroll and advice handlers, each with the clock read at one
\* instant.
NextSession ==
  \/ mount
  \/ rerender
  \/ \E tab \in Tabs : setActiveTab(tab)
  \/ \E f \in ValidForms : OneReading /\ handleSubmit(f)
  \/ \E i \in 1..MaxTx : handleEditClick(i)
  \/ onCancelEdit
  \/ \E id \in DeleteIds : OneReading /\ deleteTransaction(id, TRUE)
  \/ \E f \in ValidStaffForms : staff = <<>> /\ OneReading /\ handleAddStaff(f)
  \/ OneReading /\ processWeeklyPay(1)
  \/ \E built \in BOOLEAN : fetchInsights(built)
  \/ \E resolved \in BOOLEAN : getBusinessInsights(resolved)

SpecSession == InitStart /\ [][NextSession]_vars

\* A request that was sent is answered or fails: the promise of
\* generateContent settles.
SpecSessionFair ==
  SpecSession /\ WF_vars(\E resolved \in BOOLEAN : getBusinessInsights(resolved))

(* ------------------------------ payroll -------------------------------- *)

\* x > 0 and x >= 0 of JavaScript
Positive(x) == Less(Num(0), x)

NonNegative(x) == LessEq(Num(0), x)

\* The step just taken ran processWeeklyPay on card i.
WeeklyPayStep(i) == lastOp'.op = "processWeeklyPay" /\ lastOp'.arg = i

\* The step just taken ran settleMonthlyHold on card i, which held a balance.
SettleStep(i) ==
  /\ lastOp'.op = "settleMonthlyHold"
  /\ lastOp'.arg = i
  /\ i \in 1..Len(staff)
  /\ Positive(staff[i].totalHeldBalance)

\* The ledger grew by exactly one transaction, tagged with staff id sid.
AppendedOneFor(sid) ==
  /\ Len(transactions') = Len(transactions) + 1
  /\ Tail(transactions') = transactions
  /\ transactions'[1].staffId = sid

\* Exactly the staff record at position i changed its balance.
OnlyBalanceChanged(i) ==
  /\ Len(staff') = Len(staff)
  /\ staff'[i].totalHeldBalance # staff[i].totalHeldBalance
  /\ \A k \in 1..Len(staff) : k # i => staff'[k] = staff[k]

\* C1: every processWeeklyPay(s), and every settleMonthlyHold(s) with a
\* positive held balance, appends exactly one transaction tagged with s.id and
\* changes the balance of exactly that one staff record, also while an edit is
\* in progress.
C1_PayrollAtomic ==
  [][\A i \in 1..MaxStaff :
       (WeeklyPayStep(i) \/ SettleStep(i)) =>
         AppendedOneFor(staff[i].id) /\ OnlyBalanceChanged(i)]_vars

\* C2: processWeeklyPay(s) records one EXPENSE of 40% of the base pay
\* ('Staff - Weekly', CASH, staffId = s.id) and raises the held balance by
\* exactly 60% of the base pay, whatever the prior balance.
C2_WeeklyPaySplit ==
  [][\A i \in 1..MaxStaff :
       WeeklyPayStep(i) =>
         /\ AppendedOneFor(staff[i].id)
         /\ transactions'[1].type = EXPENSE
         /\ transactions'[1].amount = Times(staff[i].weeklyBasePay, Rate040)
         /\ transactions'[1].category = "Staff - Weekly"
         /\ transactions'[1].paymentMethod = "CASH"
         /\ staff'[i].totalHeldBalance
              = Plus(staff[i].totalHeldBalance, Times(staff[i].weeklyBasePay, Rate060))]_vars

\* C3: settleMonthlyHold(s) with a positive held balance records exactly one
\* EXPENSE for the full held balance ('Staff - Month End', staffId = s.id) and
\* resets the balance to 0.
C3_SettlePaysAll ==
  [][\A i \in 1..MaxStaff :
       SettleStep(i) =>
         /\ AppendedOneFor(staff[i].id)
         /\ transactions'[1].type = EXPENSE
         /\ transactions'[1].amount = staff[i].totalHeldBalance
         /\ transactions'[1].category = "Staff - Month End"
         /\ IsZero(staff'[i].totalHeldBalance)]_vars

\* C4: settleMonthlyHold(s) with a held balance of zero changes neither the
\* ledger nor any staff record, so a settlement repeated right after a
\* successful one adds nothing and leaves the balance at 0.
C4_SettleZeroIsNoOp ==
  [][\A i \in 1..MaxStaff :
       ( /\ lastOp'.op = "settleMonthlyHold"
         /\ lastOp'.arg = i
         /\ i \in 1..Len(staff)
         /\ IsZero(staff[i].totalHeldBalance) ) =>
         /\ transactions' = transactions
         /\ staff' = staff
         /\ IsZero(staff'[i].totalHeldBalance)]_vars

\* C4 witness: a settlement of card i has just been refused while the newest
\* ledger entry is the month-end settlement that emptied that card.
C4_Witness ==
  /\ lastOp.op = "settleMonthlyHold"
  /\ ~lastOp.accepted
  /\ lastOp.arg \in 1..Len(staff)
  /\ IsZero(staff[lastOp.arg].totalHeldBalance)
  /\ transactions # <<>>
  /\ transactions[1].category = "Staff - Month End"
  /\ transactions[1].staffId = staff[lastOp.arg].id

\* C5: every staff member's held balance is non-negative.
C5_BalanceNonNegative ==
  \A i \in 1..Len(staff) : NonNegative(staff[i].totalHeldBalance)

\* C6: every staff member's held balance equals the held amounts of the weekly
\* payouts performed for them minus the amounts settled for them.
C6_BalanceIsAccrued ==
  \A i \in 1..Len(staff) : staff[i].totalHeldBalance = accrued[i]

(* ------------------------------- ledger -------------------------------- *)

\* The step just taken submitted the transaction form and got past its check.
SubmitStep == lastOp'.op = "handleSubmit" /\ lastOp'.accepted

\* The amount typed into form f is a non-negative finite number.
ValidAmount(f) ==
  /\ f.amount # <<>>
  /\ Number(f.amount).cls = "fin"
  /\ NonNegative(Number(f.amount))

\* Record rec carries the amount, category, type, method and notes of form f.
AsSubmitted(rec, f) ==
  /\ rec.amount = Number(f.amount)
  /\ rec.category = f.category
  /\ rec.type = f.type
  /\ rec.paymentMethod = f.paymentMethod
  /\ rec.notes.text = f.notes

\* C7: a submission whose amount is empty, not a number or negative is
\* rejected and leaves the ledger unchanged (so no negative amount ever
\* enters the ledger).
C7_BadAmountRejected ==
  [][(lastOp'.op = "handleSubmit" /\ ~ValidAmount(lastOp'.form)) =>
       /\ transactions' = transactions
       /\ \A k \in 1..Len(transactions') : NonNegative(transactions'[k].amount)]_vars

C9_EditReplacesOne ==
  [][(SubmitStep /\ editingTransaction # <<>>) =>
       /\ Len(transactions') = Len(transactions)
       /\ editingTransaction' = <<>>
       /\ \E k \in 1..Len(transactions) :
            /\ transactions[k].id = editingTransaction[1].id
            /\ transactions'[k].id = transactions[k].id
            /\ transactions'[k].date = transactions[k].date
            /\ transactions'[k].staffId = transactions[k].staffId
            /\ AsSubmitted(transactions'[k], lastOp'.form)
            /\ \A j \in 1..Len(transactions) : j # k => transactions'[j] = transactions[j]]_vars

\* The id of the transaction the step just taken handed to addTransaction.
HandedId ==
  IF lastOp'.op = "processWeeklyPay"
  THEN [pfx |-> "pay", at |-> now, sid |-> staff[lastOp'.arg].id]
  ELSE IF lastOp'.op = "settleMonthlyHold"
  THEN [pfx |-> "settle", at |-> now, sid |-> staff[lastOp'.arg].id]
  ELSE editingTransaction[1].id

\* The step just taken called addTransaction in edit mode (an update) with a
\* transaction whose id is not in the ledger.
UpdateOfAbsentId ==
  /\ editingTransaction # <<>>
  /\ lastOp'.op \in {"handleSubmit", "processWeeklyPay", "settleMonthlyHold"}
  /\ lastOp'.accepted
  /\ \A k \in 1..Len(transactions) : transactions[k].id # HandedId

\* C10: an update with a transaction whose id is not in the ledger fails with
\* a NotFoundError, distinguishable from a successful update, and leaves the
\* ledger unchanged.
C10_UpdateAbsentFails ==
  [][UpdateOfAbsentId =>
       /\ lastOp'.error = "NotFoundError"
       /\ transactions' = transactions]_vars

(* ------------------------- deletion, ids, order ------------------------ *)

\* The sequence ts without its k-th element.
RemoveAt(ts, k) == SubSeq(ts, 1, k - 1) \o SubSeq(ts, k + 1, Len(ts))

\* C11: removing an id that is not in the ledger changes nothing and raises
\* no error; removing a present id after confirmation deletes that record and
\* nothing else; declining the confirmation leaves the ledger unchanged.
C11_DeleteExact ==
  [][lastOp'.op = "deleteTransaction" =>
       IF ~lastOp'.accepted
       THEN transactions' = transactions
       ELSE IF \A k \in 1..Len(transactions) : transactions[k].id # lastOp'.id
       THEN transactions' = transactions /\ lastOp'.error = "none"
       ELSE \E k \in 1..Len(transactions) :
              /\ transactions[k].id = lastOp'.id
              /\ transactions' = RemoveAt(transactions, k)]_vars

\* C12: no two transactions in the ledger share an id.
C12_IdsUnique ==
  \A a, b \in 1..Len(transactions) :
    transactions[a].id = transactions[b].id => a = b

\* C13: the ledger is ordered most recent first: no transaction is older
\* than the one listed after it.
C13_NewestFirst ==
  \A k \in 1..Len(transactions) - 1 :
    transactions[k].date >= transactions[k + 1].date

(* --------------------------- derived figures --------------------------- *)

\* The sum, in the order of the list, of the amounts of the transactions of
\* the ledger that satisfy keep.
RECURSIVE AmountUpTo(_, _)
AmountUpTo(ts, n) ==
  IF n = 0 THEN Num(0)
  ELSE Plus(AmountUpTo(ts, n - 1), ts[n].amount)

AmountOf(keep(_)) ==
  LET kept == SelectSeq(transactions, keep)
  IN  AmountUpTo(kept, Len(kept))

IsIncome(t) == t.type = INCOME

IsExpense(t) == t.type = EXPENSE

\* C14: income is the sum of the amounts of all INCOME transactions present,
\* expenses the sum of all EXPENSE transactions present, whatever their dates,
\* and profit is income minus expenses; all three are 0 for the empty ledger.
C14_Totals ==
  /\ totals(transactions).income = AmountOf(IsIncome)
  /\ totals(transactions).expenses = AmountOf(IsExpense)
  /\ profit(transactions) = Minus(AmountOf(IsIncome), AmountOf(IsExpense))
  /\ transactions = <<>> =>
       /\ totals(transactions) = [income |-> Num(0), expenses |-> Num(0)]
       /\ profit(transactions) = Num(0)

\* C14 witness: income and expenses of different days are both in the ledger.
C14_Witness ==
  \E a, b \in 1..Len(transactions) :
    /\ transactions[a].type = INCOME /\ ~IsZero(transactions[a].amount)
    /\ transactions[b].type = EXPENSE /\ ~IsZero(transactions[b].amount)
    /\ DayOf(transactions[a].date) # DayOf(transactions[b].date)

\* The summed INCOME amount of the given payment method.
IncomeBy(method) ==
  LET keep(t) == t.type = INCOME /\ t.paymentMethod = method
  IN  AmountOf(keep)

\* C15: the payment-method breakdown has an entry for a method only if the
\* summed INCOME amount of that method is not zero; each entry's value is the
\* sum of the INCOME amounts of its method (EXPENSE never counts); the empty
\* ledger gives the empty breakdown.
C15_PaymentBreakdown ==
  LET data == paymentData(transactions)
  IN /\ \A e \in 1..Len(data) :
          /\ ~IsZero(IncomeBy(data[e].name))
          /\ data[e].value = IncomeBy(data[e].name)
     /\ transactions = <<>> => data = <<>>

\* The summed amount of the transactions of the given type dated on the day.
OnDay(type, day) ==
  LET keep(t) == t.type = type /\ DayOf(t.date) = day
  IN  AmountOf(keep)

\* C16: the daily trend has exactly 7 points, for the 7 consecutive days ending
\* today, oldest first, and each point carries the sums of the INCOME and of
\* the EXPENSE amounts dated on its day; on a device in any zone.
C16_DailyTrend ==
  \A zone \in DeviceZones :
    /\ Len(dailyChartData(zone)) = 7
    /\ \A k \in 1..Len(dailyChartData(zone)) :
         LET day == DayOf(now) - (7 - k)
         IN /\ dailyChartData(zone)[k].date = day
            /\ dailyChartData(zone)[k].income = OnDay(INCOME, day)
            /\ dailyChartData(zone)[k].expense = OnDay(EXPENSE, day)

(* -------------------------------- staff -------------------------------- *)

\* C17: a registration with name or phone missing, or with weekly pay missing,
\* zero or negative, is rejected and leaves the staff collection unchanged;
\* an accepted one adds one member with held balance 0 and weekly pay > 0.
C17_RegistrationValidated ==
  [][lastOp'.op = "handleAddStaff" =>
       IF lastOp'.accepted
       THEN /\ Len(staff') = Len(staff) + 1
            /\ SubSeq(staff', 1, Len(staff)) = staff
            /\ staff'[Len(staff')].name # ""
            /\ staff'[Len(staff')].phone # ""
            /\ IsZero(staff'[Len(staff')].totalHeldBalance)
            /\ Positive(staff'[Len(staff')].weeklyBasePay)
       ELSE staff' = staff]_vars

LedgerOps == {"handleSubmit", "handleEditClick", "onCancelEdit", "deleteTransaction"}

PayrollOps == {"processWeeklyPay", "settleMonthlyHold"}

\* C18: adding, editing and deleting transactions change no staff record, and
\* a held balance changes only in a processWeeklyPay or settleMonthlyHold step.
C18_LedgerLeavesStaff ==
  [][/\ lastOp'.op \in LedgerOps => staff' = staff
     /\ (\E i \in 1..Len(staff) :
           i <= Len(staff') /\ staff'[i].totalHeldBalance # staff[i].totalHeldBalance)
          => lastOp'.op \in PayrollOps]_vars

\* C18 witness: a payroll-generated transaction of a member who has a held
\* balance has just been deleted.
C18_Witness ==
  /\ lastOp.op = "deleteTransaction"
  /\ lastOp.accepted
  /\ lastOp.id.pfx = "pay"
  /\ \A k \in 1..Len(transactions) : transactions[k].id # lastOp.id
  /\ \E i \in 1..Len(staff) :
       staff[i].id = lastOp.id.sid /\ Positive(staff[i].totalHeldBalance)

\* The sum, in the order of the list, of the held balances of the first n
\* staff records.
RECURSIVE HeldUpTo(_)
HeldUpTo(n) ==
  IF n = 0 THEN Num(0)
  ELSE Plus(HeldUpTo(n - 1), staff[n].totalHeldBalance)

\* C19: the total escrow liability is the sum of the held balances of all
\* staff, and 0 when there are no staff.
C19_EscrowLiability ==
  /\ totalEscrowLiability(staff) = HeldUpTo(Len(staff))
  /\ staff = <<>> => totalEscrowLiability(staff) = Num(0)

\* C19 witness: two members both have a held balance, and the total is not
\* a whole number.
C19_Witness ==
  /\ Len(staff) = 2
  /\ Positive(staff[1].totalHeldBalance)
  /\ Positive(staff[2].totalHeldBalance)
  /\ totalEscrowLiability(staff).e < 0

\* The transaction is a weekly-pay record of the member with id sid.
IsWeeklyFor(t, sid) == t.category = "Staff - Weekly" /\ t.staffId = sid

\* C20: of two processWeeklyPay(s) calls in a row both are accepted; they
\* leave two 'Staff - Weekly' transactions for s and each raises the held
\* balance of s by the held amount.
C20_NoCooldown ==
  [][(/\ lastOp.op = "processWeeklyPay"
      /\ lastOp'.op = "processWeeklyPay"
      /\ lastOp'.arg = lastOp.arg) =>
       LET i == lastOp.arg
       IN /\ lastOp.accepted /\ lastOp'.accepted
          /\ Len(transactions') = Len(transactions) + 1
          /\ Len(transactions') >= 2
          /\ IsWeeklyFor(transactions'[1], staff[i].id)
          /\ IsWeeklyFor(transactions'[2], staff[i].id)
          /\ staff'[i].totalHeldBalance
               = Plus(staff[i].totalHeldBalance, Times(staff[i].weeklyBasePay, Rate060))]_vars

(* --------------------------- the advice card --------------------------- *)

AdviceOps == {"fetchInsights", "getBusinessInsights"}

\* C21: a failed advice call ends with the fallback message; once the loading
\* flag is set it is cleared again, whether the call succeeds or fails; and
\* the advice steps leave the transactions and the staff as they are.
C21_AdviceFailureTolerated ==
  /\ [](loadingInsights => <>(~loadingInsights))
  /\ [][lastOp'.op \in AdviceOps =>
          /\ transactions' = transactions
          /\ staff' = staff
          /\ (lastOp'.op = "getBusinessInsights" /\ ~lastOp'.accepted) =>
               insights' = FallbackMessage]_vars

\* C22: the advice generator is called only on a ledger of at least 3
\* transactions; with fewer, a refresh request leaves the advice text and the
\* loading flag as they are and calls nothing.
C22_AdviceNeedsThree ==
  [][lastOp'.op = "fetchInsights" =>
       IF Len(transactions) < 3
       THEN /\ ~lastOp'.accepted
            /\ insights' = insights
            /\ loadingInsights' = loadingInsights
            /\ pending' = pending
       ELSE lastOp'.accepted]_vars

\* C22 witness: refresh was just requested on a ledger of two transactions.
C22_Witness ==
  /\ lastOp.op = "fetchInsights"
  /\ ~lastOp.accepted
  /\ Len(transactions) = 2

(* ----------------------------- persistence ----------------------------- *)

StartOps == {"mount", "rerender"}

\* C23: once the application is up, after every handler the copy stored under
\* each key is the collection in memory; and starting up on stored data never
\* replaces what is stored under a key (by the empty initial state), so the
\* collections in memory after start-up are the stored ones.
C23_Persistence ==
  /\ [](boot = "ready" =>
          /\ storage.chai_transactions = Item(stringify(transactions))
          /\ storage.chai_staff = Item(stringify(staff)))
  /\ [][lastOp'.op \in StartOps =>
          /\ storage.chai_transactions.saved =>
               storage'.chai_transactions = storage.chai_transactions
          /\ storage.chai_staff.saved =>
               storage'.chai_staff = storage.chai_staff]_vars

(* ------------------------------ edit mode ------------------------------ *)

\* The record being edited, when there is one, has this id.
EditingId(id) == editingTransaction # <<>> /\ editingTransaction[1].id = id

\* C24: while a record is being edited a transaction with its id is in the
\* ledger; edit mode starts only with the choice of a record of the ledger;
\* submitting the edit, cancelling and deleting the edited record end it, and
\* deleting another record (or declining the deletion) leaves it as it is.
C24_EditMode ==
  /\ [](editingTransaction # <<>> =>
          \E k \in 1..Len(transactions) : transactions[k].id = editingTransaction[1].id)
  /\ [][/\ (editingTransaction' # <<>> /\ editingTransaction' # editingTransaction) =>
             /\ lastOp'.op = "handleEditClick"
             /\ \E k \in 1..Len(transactions) : editingTransaction' = <<transactions[k]>>
        /\ (lastOp'.op = "handleSubmit" /\ lastOp'.accepted /\ editingTransaction # <<>>) =>
             editingTransaction' = <<>>
        /\ lastOp'.op = "onCancelEdit" => editingTransaction' = <<>>
        /\ lastOp'.op = "deleteTransaction" =>
             editingTransaction' =
               IF lastOp'.accepted /\ EditingId(lastOp'.id) THEN <<>> ELSE editingTransaction]_vars

\* C24 witness: a record other than the one being edited has just been
\* deleted, and the edit is still in progress.
C24_Witness ==
  /\ lastOp.op = "deleteTransaction"
  /\ lastOp.accepted
  /\ lastOp.editing
  /\ lastOp.id # AbsentId
  /\ editingTransaction # <<>>

(* ------------------------- payroll conservation ------------------------ *)

\* What the ledger ts shows as paid to member s plus what is held for s.
PaidPlusHeld(ts, s) ==
  Plus(sumAmounts(SelectSeq(ts, LAMBDA t : t.staffId = s.id)), s.totalHeldBalance)

\* C25: for every member s, the amounts of the ledger transactions tagged
\* with s.id plus the held balance of s equal weeklyBasePay times the number
\* of weekly payouts made for s.  Step by step: the sum is 0 at registration,
\* a weekly payout for s raises it by weeklyBasePay, and a weekly payout for
\* another member and a settlement leave it as it is.
C25_PayrollConserves ==
  [][/\ (lastOp'.op = "handleAddStaff" /\ lastOp'.accepted) =>
          IsZero(PaidPlusHeld(transactions', staff'[Len(staff')]))
     /\ \A i \in 1..Len(staff) :
          /\ (lastOp'.op = "processWeeklyPay" /\ lastOp'.arg = i) =>
               PaidPlusHeld(transactions', staff'[i])
                 = Plus(PaidPlusHeld(transactions, staff[i]), staff[i].weeklyBasePay)
          /\ (lastOp'.op = "processWeeklyPay" /\ lastOp'.arg # i) =>
               PaidPlusHeld(transactions', staff'[i]) = PaidPlusHeld(transactions, staff[i])
          /\ lastOp'.op = "settleMonthlyHold" =>
               PaidPlusHeld(transactions', staff'[i]) = PaidPlusHeld(transactions, staff[i])]_vars

====
